---- MODULE Spec2Model ----
(***************************************************************************)
(* Model of the Astrospheric weather driver                                *)
(* (src/drivers/weather/indi_astrospheric_weather.cpp).                    *)
(*                                                                         *)
(* Times are seconds since the Unix epoch (time_t).  Sample values are     *)
(* fixed-point numbers in hundredths (29315 is 293.15), so that the two    *)
(* unit conversions of the parser are exact integer operations.            *)
(***************************************************************************)
EXTENDS Integers, Sequences, FiniteSets, TLC

(***************************************************************************)
(* Program constants                                                       *)
(***************************************************************************)
ExpectedHours == 82

SecondsPerHour == 3600

RefreshInterval == 6 * 3600

KelvinOffset == 27315

NumMetrics == 7

Metrics == 1..NumMetrics

(* Positions of the seven vectors, in the order the parser fills them. *)
CLOUD == 1

TEMP == 2

WIND == 3

DEW == 4

WDIR == 5

SEEING == 6

TRANSP == 7

(***************************************************************************)
(* Bounds of the environment                                               *)
(***************************************************************************)
(* Seconds that may pass between two clock readings of one handler. *)
MaxLatency == 1

(* Number of distinct well-formed forecasts the provider may return. *)
NumForecasts == 2

(***************************************************************************)
(* Calendar: timegm() on the fields read by get_time()                     *)
(***************************************************************************)
Stamp(y, mo, d, h, mi, s) ==
    [fmt |-> "iso", year |-> y, mon |-> mo, day |-> d, hour |-> h, min |-> mi, sec |-> s]

GarbageStamp == [fmt |-> "garbage", year |-> 0, mon |-> 0, day |-> 0, hour |-> 0, min |-> 0, sec |-> 0]

(* Days since 1970-01-01 of a proleptic Gregorian date. *)
DaysFromCivil(y, m, d) ==
    LET yy  == IF m <= 2 THEN y - 1 ELSE y
        era == yy \div 400
        yoe == yy - era * 400
        mp  == IF m > 2 THEN m - 3 ELSE m + 9
        doy == (153 * mp + 2) \div 5 + d - 1
        doe == yoe * 365 + yoe \div 4 - yoe \div 100 + doy
    IN  era * 146097 + doe - 719468

Timegm(tm) ==
    DaysFromCivil(tm.year, tm.mon, tm.day) * 86400
        + tm.hour * SecondsPerHour + tm.min * 60 + tm.sec

parseUTCDateTime(str) ==
    IF str.fmt # "iso" THEN -1 ELSE Timegm(str)

(***************************************************************************)
(* The provider's responses                                                *)
(*                                                                         *)
(* A response body is described by what the parser looks at: whether it is *)
(* JSON at all, the UTCStartTime string, the APICreditUsedToday integer,   *)
(* and for each of the seven arrays whether the key is present, how many   *)
(* entries it has, and the position of an entry whose ActualValue is not a *)
(* number (bad = <<metric, index>>, <<0, 0>> when every entry is numeric). *)
(***************************************************************************)
StartStamp(k) == Stamp(2025, 6, 1, (k - 1) % 24, 0, 0)

CreditsOf(k) == IF k = 1 THEN 10 ELSE 95

(* Raw sample of forecast k for metric m at hour index i (0-based), in the *)
(* provider's units (Kelvin, m/s, ...), hundredths.                        *)
Raw(k, m, i) == 100 * (1000 * k + 100 * m + i)

WellFormed(k) ==
    [syntax |-> TRUE, hasStart |-> TRUE, start |-> StartStamp(k),
     hasCredits |-> TRUE, credits |-> CreditsOf(k), seed |-> k,
     has |-> [m \in Metrics |-> TRUE], len |-> [m \in Metrics |-> ExpectedHours],
     bad |-> <<0, 0>>]

Malformed == [WellFormed(NumForecasts) EXCEPT !.syntax = FALSE]

NoStartTime == [WellFormed(NumForecasts) EXCEPT !.hasStart = FALSE]

BadTimestamp == [WellFormed(NumForecasts) EXCEPT !.start = GarbageStamp]

NoCredits == [WellFormed(NumForecasts) EXCEPT !.hasCredits = FALSE]

MissingSeries(m) == [WellFormed(NumForecasts) EXCEPT !.has[m] = FALSE]

WrongLength(m, n) == [WellFormed(NumForecasts) EXCEPT !.len[m] = n]

NonNumeric(m, i) == [WellFormed(NumForecasts) EXCEPT !.bad = <<m, i>>]

GoodResponses == {WellFormed(k) : k \in 1..NumForecasts}

BadResponses ==
    {Malformed, NoStartTime, BadTimestamp, NoCredits,
     MissingSeries(WIND), WrongLength(TRANSP, ExpectedHours - 1),
     WrongLength(CLOUD, ExpectedHours + 1), NonNumeric(TEMP, 40)}

Responses == GoodResponses \cup BadResponses

(* What client.Post() gives back: no usable response, or a 200 with one of *)
(* the given bodies.                                                       *)
NetOutcomes(bodies) ==
    {[ok |-> FALSE, body |-> Malformed]} \cup {[ok |-> TRUE, body |-> r] : r \in bodies}

(***************************************************************************)
(* parseJSONResponse                                                       *)
(***************************************************************************)
KelvinToCelsius(x) == x - KelvinOffset

MsToKph(x) == (x * 36) \div 10

(* Mutant of Convert: every sample is stored in the provider's unit. *)
ConvertNothing(m, x) == x

(* The conversion each push_back applies on the way into its vector. *)
Convert(m, x) ==
    CASE m = TEMP -> KelvinToCelsius(x)
      [] m = DEW  -> KelvinToCelsius(x)
      [] m = WIND -> MsToKph(x)
      [] OTHER    -> x

(* Entries the range-for over j[<key>] visits: none for an absent key. *)
Entries(r, m) == IF r.has[m] THEN r.len[m] ELSE 0

(* The metric whose loop throws json::type_error, 0 if none does. *)
ThrowingMetric(r) ==
    IF r.bad[1] \in Metrics /\ r.bad[2] < Entries(r, r.bad[1]) THEN r.bad[1] ELSE 0

Pushed(r, m, n) == [i \in 1..n |-> Convert(m, Raw(r.seed, m, i - 1))]

(* The seven vectors after clear() and the seven loops, up to the throw. *)
FilledSeries(r) ==
    LET t == ThrowingMetric(r)
    IN  [m \in Metrics |->
            IF t = 0 \/ m < t THEN Pushed(r, m, Entries(r, m))
            ELSE IF m = t THEN Pushed(r, m, r.bad[2])
            ELSE << >>]

(* FilledSeries, tabulated once for the responses explored. *)
SeriesTable == [r \in Responses |-> FilledSeries(r)]

(* Mutant of LengthsOK: only the cloud cover vector is measured. *)
LengthsOKCloudOnly(series, hours) == hours = ExpectedHours

LengthsOK(series, hours) ==
    /\ hours = ExpectedHours
    /\ \A m \in Metrics : Len(series[m]) = ExpectedHours

(* c is the forecast state before the call, t the value of time(nullptr)   *)
(* at the end of a successful parse.  Returns the return value and the     *)
(* forecast state after the call.                                          *)
parseJSONResponse(r, c, t) ==
    IF ~r.syntax \/ ~r.hasStart
    THEN [ok |-> FALSE, cache |-> c]
    ELSE LET st == parseUTCDateTime(r.start)
             c1 == [c EXCEPT !.forecastStartTime = st]
         IN  IF st = -1 \/ ~r.hasCredits
             THEN [ok |-> FALSE, cache |-> c1]
             ELSE LET c2 == [c1 EXCEPT !.apiCreditsUsed = r.credits,
                                       !.series = SeriesTable[r]]
                      c3 == [c2 EXCEPT !.forecastHours = Len(c2.series[CLOUD])]
                  IN  IF ThrowingMetric(r) # 0
                      THEN [ok |-> FALSE, cache |-> c2]
                      ELSE IF ~LengthsOK(c3.series, c3.forecastHours)
                      THEN [ok |-> FALSE, cache |-> c3]
                      ELSE [ok |-> TRUE,
                            cache |-> [c3 EXCEPT !.forecastValid = TRUE,
                                                 !.lastFetchTime = t]]

(***************************************************************************)
(* State                                                                   *)
(***************************************************************************)
VARIABLES
    connected,          \* isConnected()
    timerID,            \* handle of the driver's update timer, -1 if none
    timers,             \* handles of the timers pending in the event loop
    locationReceived,
    ModeSP,             \* "API" or "SIM": the switch of ModeSP that is ISS_ON
    APIKeyTP,           \* APIKeyTP[0] text
    LocationNP,         \* <<latitude, longitude>> in degrees
    forecastValid,
    lastFetchTime,
    forecastHours,
    forecastStartTime,
    apiCreditsUsed,
    cloudCover, temperature, windSpeed, dewPoint, windDirection, seeing, transparency,
    parameters,         \* values of the seven weather parameters (ParametersNP)
    parametersState,    \* state of ParametersNP
    clock,              \* what time(nullptr) returns
    \* What the last handler did (observation only, never read by the driver):
    status,             \* IPState returned by its updateWeather(), "NONE" if it ran none
    path,               \* the return statement updateWeather() left by
    hourOffset,         \* the hourOffset it computed (0 if it computed none)
    requests,           \* the request payloads it posted
    received,           \* the response bodies it handed to the parser
    emitted,            \* whether it called setParameterValue
    entry,              \* clock, forecastValid and lastFetchTime when its updateWeather() began
    \* What the handlers so far did (history only, never read by the driver):
    pendingRetry,       \* the last refresh attempt failed and none has succeeded since
    fetchedWith         \* the request payload the last successful refresh posted

cacheVars ==
    <<forecastValid, lastFetchTime, forecastHours, forecastStartTime, apiCreditsUsed,
      cloudCover, temperature, windSpeed, dewPoint, windDirection, seeing, transparency>>

configVars == <<locationReceived, ModeSP, APIKeyTP, LocationNP>>

timerVars == <<connected, timerID, timers>>

outputVars == <<parameters, parametersState>>

observed == <<status, path, hourOffset, requests, received, emitted, entry>>

history == <<pendingRetry, fetchedWith>>

vars == <<timerVars, configVars, cacheVars, outputVars, clock, observed, history>>

(***************************************************************************)
(* Environment: wall-clock instants, responses, configuration values       *)
(***************************************************************************)
Epoch == Timegm(StartStamp(1))

WindowSeconds == ExpectedHours * SecondsPerHour

(* Clock readings around the start and the end of the forecast window. *)
WindowInstants ==
    {Epoch + d : d \in {-1, 0, SecondsPerHour, WindowSeconds - 1, WindowSeconds}}

(* Clock readings around the refresh interval after a fetch at Epoch. *)
RefreshInstants ==
    {Epoch + d : d \in {0, RefreshInterval - 1, RefreshInterval, RefreshInterval + 1}}

Keys == {"", "key-A", "key-B"}

(* <<latitude, longitude>>, the longitude in the [0, 360] convention. *)
Locations == {<<0, 0>>, <<45, 285>>, <<45, 0>>, <<-30, 180>>, <<45, 181>>, <<-30, 360>>}

Modes == {"API", "SIM"}

(* What an out-of-bounds operator[] on a vector may read. *)
UBValues == {0, -77700}

(* An environment: the clock readings, response bodies and configuration   *)
(* values the handlers are driven with.                                    *)
Env(instants, bodies, keys, locations, modes) ==
    [instants |-> instants, bodies |-> bodies, keys |-> keys,
     locations |-> locations, modes |-> modes]

(***************************************************************************)
(* updateWeather and its helpers                                           *)
(***************************************************************************)
Series == <<cloudCover, temperature, windSpeed, dewPoint, windDirection, seeing, transparency>>

Cache ==
    [forecastStartTime |-> forecastStartTime, apiCreditsUsed |-> apiCreditsUsed,
     series |-> Series, forecastHours |-> forecastHours,
     forecastValid |-> forecastValid, lastFetchTime |-> lastFetchTime]

(* C++ integer division truncates toward zero. *)
TruncDiv(a, b) == IF a >= 0 THEN a \div b ELSE -((-a) \div b)

(* Mutant of NeedsRefresh: the age test includes the interval itself. *)
NeedsRefreshInclusive(valid, currentTime, last) ==
    ~valid \/ (currentTime - last) >= RefreshInterval

(* Mutant of NeedsRefresh: every call refreshes. *)
NeedsRefreshAlways(valid, currentTime, last) == TRUE

NeedsRefresh(valid, currentTime, last) ==
    ~valid \/ (currentTime - last) > RefreshInterval

(* Mutant of HourOffsetOf: the offset is rounded to the nearest hour. *)
HourOffsetRounded(now, start) == TruncDiv(now - start + 1800, SecondsPerHour)

HourOffsetOf(now, start) == TruncDiv(now - start, SecondsPerHour)

OutOfRange(h, hours) == h < 0 \/ h >= hours

(* Mutant of KeyMissing: the key is never checked. *)
KeyNeverMissing(key) == FALSE

KeyMissing(key) == key = ""

LocationUnset(loc) == loc[1] = 0 /\ loc[2] = 0

(* vector::operator[] : reading past the end is undefined behaviour. *)
ReadAt(s, h, junk) == IF h < Len(s) THEN s[h + 1] ELSE junk

(* Mutant of NormalizeLongitude: 180 itself is reduced as well. *)
NormalizeLongitudeFrom180(lon) == IF lon >= 180 THEN lon - 360 ELSE lon

NormalizeLongitude(lon) == IF lon > 180 THEN lon - 360 ELSE lon

Payload(loc, key) ==
    [Latitude |-> loc[1], Longitude |-> NormalizeLongitude(loc[2]), APIKey |-> key]

SimulatedValues == <<5000, 2000, 1000, 1000, 18000, 250, 1500>>

Result(st, p, c, vals, em, reqs, recv, h, t) ==
    [status |-> st, path |-> p, cache |-> c, values |-> vals, emitted |-> em,
     requests |-> reqs, received |-> recv, hourOffset |-> h, endTime |-> t]

(* Mutant of Lookup: a range failure leaves forecastValid alone. *)
LookupKeepingValid(c, now, junk, reqs, recv) ==
    LET h == HourOffsetOf(now, c.forecastStartTime)
    IN  IF OutOfRange(h, c.forecastHours)
        THEN Result("ALERT", "range", c, parameters, FALSE, reqs, recv, h, now)
        ELSE Result("OK", "served", c,
                    [m \in Metrics |-> ReadAt(c.series[m], h, junk)],
                    TRUE, reqs, recv, h, now)

(* Mutant of Lookup: a range failure has already set the first parameter. *)
LookupEmittingOutOfRange(c, now, junk, reqs, recv) ==
    LET h == HourOffsetOf(now, c.forecastStartTime)
    IN  IF OutOfRange(h, c.forecastHours)
        THEN Result("ALERT", "range", [c EXCEPT !.forecastValid = FALSE],
                    [m \in Metrics |-> IF m = CLOUD THEN -100 ELSE parameters[m]],
                    TRUE, reqs, recv, h, now)
        ELSE Result("OK", "served", c,
                    [m \in Metrics |-> ReadAt(c.series[m], h, junk)],
                    TRUE, reqs, recv, h, now)

(* Lines 477-511: the lookup at time now in forecast state c. *)
Lookup(c, now, junk, reqs, recv) ==
    LET h == HourOffsetOf(now, c.forecastStartTime)
    IN  IF OutOfRange(h, c.forecastHours)
        THEN Result("ALERT", "range", [c EXCEPT !.forecastValid = FALSE],
                    parameters, FALSE, reqs, recv, h, now)
        ELSE Result("OK", "served", c,
                    [m \in Metrics |-> ReadAt(c.series[m], h, junk)],
                    TRUE, reqs, recv, h, now)

(* Mutant of updateWeather: a failed refresh is attempted a second time    *)
(* within the same call.                                                   *)
updateWeatherRetrying(net, tStore, tNow, junk) ==
    IF ~connected
    THEN Result("ALERT", "notconnected", Cache, parameters, FALSE, << >>, << >>, 0, clock)
    ELSE IF ~locationReceived
    THEN Result("BUSY", "nolocation", Cache, parameters, FALSE, << >>, << >>, 0, clock)
    ELSE IF ModeSP # "API"
    THEN Result("OK", "simulated", Cache, SimulatedValues, TRUE, << >>, << >>, 0, clock)
    ELSE IF KeyMissing(APIKeyTP)
    THEN Result("ALERT", "nokey", Cache, parameters, FALSE, << >>, << >>, 0, clock)
    ELSE IF LocationUnset(LocationNP)
    THEN Result("ALERT", "nocoords", Cache, parameters, FALSE, << >>, << >>, 0, clock)
    ELSE IF NeedsRefresh(forecastValid, clock, lastFetchTime)
    THEN LET req == Payload(LocationNP, APIKeyTP)
         IN  IF ~net.ok
             THEN Result("ALERT", "fetchfail", Cache, parameters, FALSE,
                         <<req, req>>, << >>, 0, tStore)
             ELSE LET parsed == parseJSONResponse(net.body, Cache, tStore)
                  IN  IF ~parsed.ok
                      THEN Result("ALERT", "parsefail", parsed.cache, parameters, FALSE,
                                  <<req, req>>, <<net.body, net.body>>, 0, tStore)
                      ELSE Lookup(parsed.cache, tNow, junk, <<req>>, <<net.body>>)
    ELSE Lookup(Cache, tNow, junk, << >>, << >>)

(* Mutant of updateWeather: the mode is looked at before the location, so  *)
(* simulated mode does not wait for one.                                   *)
updateWeatherModeFirst(net, tStore, tNow, junk) ==
    IF ~connected
    THEN Result("ALERT", "notconnected", Cache, parameters, FALSE, << >>, << >>, 0, clock)
    ELSE IF ModeSP # "API"
    THEN Result("OK", "simulated", Cache, SimulatedValues, TRUE, << >>, << >>, 0, clock)
    ELSE IF ~locationReceived
    THEN Result("BUSY", "nolocation", Cache, parameters, FALSE, << >>, << >>, 0, clock)
    ELSE IF KeyMissing(APIKeyTP)
    THEN Result("ALERT", "nokey", Cache, parameters, FALSE, << >>, << >>, 0, clock)
    ELSE IF LocationUnset(LocationNP)
    THEN Result("ALERT", "nocoords", Cache, parameters, FALSE, << >>, << >>, 0, clock)
    ELSE IF NeedsRefresh(forecastValid, clock, lastFetchTime)
    THEN LET req == Payload(LocationNP, APIKeyTP)
         IN  IF ~net.ok
             THEN Result("ALERT", "fetchfail", Cache, parameters, FALSE,
                         <<req>>, << >>, 0, tStore)
             ELSE LET parsed == parseJSONResponse(net.body, Cache, tStore)
                  IN  IF ~parsed.ok
                      THEN Result("ALERT", "parsefail", parsed.cache, parameters, FALSE,
                                  <<req>>, <<net.body>>, 0, tStore)
                      ELSE Lookup(parsed.cache, tNow, junk, <<req>>, <<net.body>>)
    ELSE Lookup(Cache, tNow, junk, << >>, << >>)

(* Mutant of updateWeather: simulated mode posts a request as well.        *)
updateWeatherSimulatedFetching(net, tStore, tNow, junk) ==
    IF ~connected
    THEN Result("ALERT", "notconnected", Cache, parameters, FALSE, << >>, << >>, 0, clock)
    ELSE IF ~locationReceived
    THEN Result("BUSY", "nolocation", Cache, parameters, FALSE, << >>, << >>, 0, clock)
    ELSE IF ModeSP # "API"
    THEN Result("OK", "simulated", Cache, SimulatedValues, TRUE,
                <<Payload(LocationNP, APIKeyTP)>>, << >>, 0, clock)
    ELSE IF KeyMissing(APIKeyTP)
    THEN Result("ALERT", "nokey", Cache, parameters, FALSE, << >>, << >>, 0, clock)
    ELSE IF LocationUnset(LocationNP)
    THEN Result("ALERT", "nocoords", Cache, parameters, FALSE, << >>, << >>, 0, clock)
    ELSE IF NeedsRefresh(forecastValid, clock, lastFetchTime)
    THEN LET req == Payload(LocationNP, APIKeyTP)
         IN  IF ~net.ok
             THEN Result("ALERT", "fetchfail", Cache, parameters, FALSE,
                         <<req>>, << >>, 0, tStore)
             ELSE LET parsed == parseJSONResponse(net.body, Cache, tStore)
                  IN  IF ~parsed.ok
                      THEN Result("ALERT", "parsefail", parsed.cache, parameters, FALSE,
                                  <<req>>, <<net.body>>, 0, tStore)
                      ELSE Lookup(parsed.cache, tNow, junk, <<req>>, <<net.body>>)
    ELSE Lookup(Cache, tNow, junk, << >>, << >>)

(* One call of updateWeather().  net is what the HTTP POST returns if one  *)
(* is made, tStore and tNow what time(nullptr) returns at line 410 and at  *)
(* line 477, junk what an out-of-bounds vector read yields.                *)
updateWeather(net, tStore, tNow, junk) ==
    IF ~connected
    THEN Result("ALERT", "notconnected", Cache, parameters, FALSE, << >>, << >>, 0, clock)
    ELSE IF ~locationReceived
    THEN Result("BUSY", "nolocation", Cache, parameters, FALSE, << >>, << >>, 0, clock)
    ELSE IF ModeSP # "API"
    THEN Result("OK", "simulated", Cache, SimulatedValues, TRUE, << >>, << >>, 0, clock)
    ELSE IF KeyMissing(APIKeyTP)
    THEN Result("ALERT", "nokey", Cache, parameters, FALSE, << >>, << >>, 0, clock)
    ELSE IF LocationUnset(LocationNP)
    THEN Result("ALERT", "nocoords", Cache, parameters, FALSE, << >>, << >>, 0, clock)
    ELSE IF NeedsRefresh(forecastValid, clock, lastFetchTime)
    THEN LET req == Payload(LocationNP, APIKeyTP)
         IN  IF ~net.ok
             THEN Result("ALERT", "fetchfail", Cache, parameters, FALSE,
                         <<req>>, << >>, 0, tStore)
             ELSE LET parsed == parseJSONResponse(net.body, Cache, tStore)
                  IN  IF ~parsed.ok
                      THEN Result("ALERT", "parsefail", parsed.cache, parameters, FALSE,
                                  <<req>>, <<net.body>>, 0, tStore)
                      ELSE Lookup(parsed.cache, tNow, junk, <<req>>, <<net.body>>)
    ELSE Lookup(Cache, tNow, junk, << >>, << >>)

NoEntry == [time |-> 0, valid |-> FALSE, last |-> 0]

(***************************************************************************)
(* Initial state: the constructor and initProperties with no saved config  *)
(***************************************************************************)
Init ==
    /\ connected = FALSE
    /\ timerID = -1
    /\ timers = {}
    /\ locationReceived = FALSE
    /\ ModeSP = "SIM"
    /\ APIKeyTP = ""
    /\ LocationNP = <<0, 0>>
    /\ forecastValid = FALSE
    /\ lastFetchTime = 0
    /\ forecastHours = 0
    /\ forecastStartTime = 0
    /\ apiCreditsUsed = 0
    /\ cloudCover = << >>
    /\ temperature = << >>
    /\ windSpeed = << >>
    /\ dewPoint = << >>
    /\ windDirection = << >>
    /\ seeing = << >>
    /\ transparency = << >>
    /\ parameters = <<0, 0, 0, 0, 0, 0, 0>>
    /\ parametersState = "IDLE"
    /\ clock = Epoch - 1
    /\ status = "NONE"
    /\ path = "none"
    /\ hourOffset = 0
    /\ requests = << >>
    /\ received = << >>
    /\ emitted = FALSE
    /\ entry = NoEntry
    /\ pendingRetry = FALSE
    /\ fetchedWith = Payload(<<0, 0>>, "")

(***************************************************************************)
(* Handlers                                                                *)
(***************************************************************************)
(* A handler that runs no updateWeather(). *)
NoUpdate ==
    /\ status' = "NONE"
    /\ path' = "none"
    /\ hourOffset' = 0
    /\ requests' = << >>
    /\ received' = << >>
    /\ emitted' = FALSE
    /\ entry' = NoEntry
    /\ UNCHANGED history

(* The effect of one updateWeather() call with result res. *)
Apply(res) ==
    /\ forecastValid' = res.cache.forecastValid
    /\ lastFetchTime' = res.cache.lastFetchTime
    /\ forecastHours' = res.cache.forecastHours
    /\ forecastStartTime' = res.cache.forecastStartTime
    /\ apiCreditsUsed' = res.cache.apiCreditsUsed
    /\ cloudCover' = res.cache.series[CLOUD]
    /\ temperature' = res.cache.series[TEMP]
    /\ windSpeed' = res.cache.series[WIND]
    /\ dewPoint' = res.cache.series[DEW]
    /\ windDirection' = res.cache.series[WDIR]
    /\ seeing' = res.cache.series[SEEING]
    /\ transparency' = res.cache.series[TRANSP]
    /\ parameters' = IF res.emitted THEN res.values ELSE parameters
    /\ parametersState' = IF res.emitted THEN "OK" ELSE parametersState
    /\ clock' = res.endTime
    /\ status' = res.status
    /\ path' = res.path
    /\ hourOffset' = res.hourOffset
    /\ requests' = res.requests
    /\ received' = res.received
    /\ emitted' = res.emitted
    /\ entry' = [time |-> clock, valid |-> forecastValid, last |-> lastFetchTime]
    /\ pendingRetry' = IF res.path \in {"fetchfail", "parsefail"} THEN TRUE
                       ELSE IF res.requests # << >> THEN FALSE
                       ELSE pendingRetry
    /\ fetchedWith' = IF res.requests # << >> /\ res.path \in {"range", "served"}
                      THEN res.requests[1]
                      ELSE fetchedWith

(* The clock readings one handler may see after its first one. *)
Later(instants, t) == {u \in instants : t <= u /\ u <= t + MaxLatency}

(* Every result updateWeather() can have in the current state, over what   *)
(* the network returns, how the clock moves during the call and what an    *)
(* out-of-bounds read yields.                                              *)
Outcomes(env) ==
    UNION {{updateWeather(net, tStore, tNow, junk) :
                net \in NetOutcomes(env.bodies), junk \in UBValues,
                tNow \in {u \in Later(env.instants, clock) : tStore <= u}} :
           tStore \in Later(env.instants, clock)}

(* SetTimer: a handle no pending timer has. *)
SetTimer(pending) ==
    CHOOSE i \in 0..Cardinality(pending) :
        i \notin pending /\ \A j \in 0..(i - 1) : j \in pending

Connect ==
    /\ ~connected
    /\ connected' = TRUE
    /\ timerID' = SetTimer(timers)
    /\ timers' = timers \cup {SetTimer(timers)}
    /\ NoUpdate
    /\ UNCHANGED <<configVars, cacheVars, outputVars, clock>>

Disconnect ==
    /\ connected
    /\ timers' = IF timerID >= 0 THEN timers \ {timerID} ELSE timers
    /\ timerID' = -1
    /\ connected' = FALSE
    /\ NoUpdate
    /\ UNCHANGED <<configVars, cacheVars, outputVars, clock>>

(* Mutant of TimerHit: the timer that fired stays pending (a periodic      *)
(* timer) and the handler still schedules another one.                     *)
TimerHitPeriodic(env) ==
    \E id \in timers :
        IF ~connected
        THEN /\ NoUpdate
             /\ UNCHANGED <<timerVars, configVars, cacheVars, outputVars, clock>>
        ELSE \E res \in Outcomes(env) :
                /\ Apply(res)
                /\ timerID' = SetTimer(timers)
                /\ timers' = timers \cup {SetTimer(timers)}
                /\ UNCHANGED <<connected, configVars>>

(* The event loop fires a pending timer. *)
TimerHit(env) ==
    \E id \in timers :
        LET rest == timers \ {id}
        IN  IF ~connected
            THEN /\ timers' = rest
                 /\ NoUpdate
                 /\ UNCHANGED <<connected, timerID, configVars, cacheVars, outputVars, clock>>
            ELSE \E res \in Outcomes(env) :
                    /\ Apply(res)
                    /\ timerID' = SetTimer(rest)
                    /\ timers' = rest \cup {SetTimer(rest)}
                    /\ UNCHANGED <<connected, configVars>>

(* The base class calls the virtual updateWeather() on its own. *)
UpdateWeatherCall(env) ==
    \E res \in Outcomes(env) :
        /\ Apply(res)
        /\ UNCHANGED <<timerVars, configVars>>

(* ISNewNumber, LOCATION *)
SetLocation(env) ==
    \E loc \in env.locations :
        /\ LocationNP' = loc
        /\ forecastValid' = FALSE
        /\ locationReceived' = TRUE
        /\ NoUpdate
        /\ UNCHANGED <<timerVars, ModeSP, APIKeyTP, lastFetchTime, forecastHours,
                       forecastStartTime, apiCreditsUsed, cloudCover, temperature,
                       windSpeed, dewPoint, windDirection, seeing, transparency,
                       outputVars, clock>>

(* ISNewNumber, WEATHER_UPDATE_PERIOD *)
SetRefreshPeriod ==
    /\ IF timerID >= 0
       THEN /\ timerID' = SetTimer(timers \ {timerID})
            /\ timers' = (timers \ {timerID}) \cup {SetTimer(timers \ {timerID})}
       ELSE UNCHANGED <<timerID, timers>>
    /\ NoUpdate
    /\ UNCHANGED <<connected, configVars, cacheVars, outputVars, clock>>

(* ISNewNumber, snooped GEOGRAPHIC_COORD: the update carries a LAT element  *)
(* (latFound), a LONG element (lonFound), or both, with the values of loc. *)
Snoop(latFound, lonFound, loc) ==
    /\ IF latFound /\ lonFound
       THEN /\ LocationNP' = loc
            /\ locationReceived' = TRUE
            /\ forecastValid' = FALSE
       ELSE UNCHANGED <<LocationNP, locationReceived, forecastValid>>
    /\ NoUpdate
    /\ UNCHANGED <<timerVars, ModeSP, APIKeyTP, lastFetchTime, forecastHours,
                   forecastStartTime, apiCreditsUsed, cloudCover, temperature,
                   windSpeed, dewPoint, windDirection, seeing, transparency,
                   outputVars, clock>>

SnoopLocation(env) ==
    \E latFound \in BOOLEAN, lonFound \in BOOLEAN, loc \in env.locations :
        Snoop(latFound, lonFound, loc)

(* Mutant of SetAPIKey: the new key leaves forecastValid alone. *)
SetAPIKeyKeepingCache(env) ==
    \E key \in env.keys :
        /\ APIKeyTP' = key
        /\ NoUpdate
        /\ UNCHANGED <<timerVars, locationReceived, ModeSP, LocationNP, cacheVars,
                       outputVars, clock>>

(* ISNewText, ASTROSPHERIC_API_KEY *)
SetAPIKey(env) ==
    \E key \in env.keys :
        /\ APIKeyTP' = key
        /\ forecastValid' = FALSE
        /\ NoUpdate
        /\ UNCHANGED <<timerVars, locationReceived, ModeSP, LocationNP, lastFetchTime,
                       forecastHours, forecastStartTime, apiCreditsUsed, cloudCover,
                       temperature, windSpeed, dewPoint, windDirection, seeing,
                       transparency, outputVars, clock>>

(* ISNewSwitch, WEATHER_MODE *)
SetMode(env) ==
    \E mode \in env.modes :
        /\ ModeSP' = mode
        /\ forecastValid' = FALSE
        /\ NoUpdate
        /\ UNCHANGED <<timerVars, locationReceived, APIKeyTP, LocationNP, lastFetchTime,
                       forecastHours, forecastStartTime, apiCreditsUsed, cloudCover,
                       temperature, windSpeed, dewPoint, windDirection, seeing,
                       transparency, outputVars, clock>>

(* Time passes between two handlers. *)
ClockAdvance(env) ==
    \E t \in env.instants :
        /\ t > clock
        /\ clock' = t
        /\ NoUpdate
        /\ UNCHANGED <<timerVars, configVars, cacheVars, outputVars>>

(* The wall clock is set back (time(nullptr) is not monotonic). *)
ClockStepBack(env) ==
    \E t \in env.instants :
        /\ t < clock
        /\ clock' = t
        /\ NoUpdate
        /\ UNCHANGED <<timerVars, configVars, cacheVars, outputVars>>

NextIn(env) ==
    \/ Connect
    \/ Disconnect
    \/ TimerHit(env)
    \/ UpdateWeatherCall(env)
    \/ SetLocation(env)
    \/ SetRefreshPeriod
    \/ SnoopLocation(env)
    \/ SetAPIKey(env)
    \/ SetMode(env)
    \/ ClockAdvance(env)
    \/ ClockStepBack(env)

(* All configuration values, a short stretch of time. *)
ConfigEnv ==
    Env({Epoch, Epoch + SecondsPerHour}, {WellFormed(1), WellFormed(NumForecasts), Malformed},
        {"", "key-A"}, {<<0, 0>>, <<45, 285>>}, Modes)

(* A driver in API mode configured with each of the locations. *)
LongitudeEnv ==
    Env({Epoch, Epoch + SecondsPerHour}, {WellFormed(1)}, {"key-A"}, Locations, {"API"})

(* A driver whose key, location and mode are changed between ticks. *)
SettingsEnv ==
    Env({Epoch, Epoch + SecondsPerHour}, {WellFormed(1), Malformed},
        {"key-A", "key-B"}, {<<45, 285>>, <<45, 181>>}, Modes)

(* A driver switched between the modes, with and without a key, around    *)
(* the refresh interval.                                                   *)
SimulatedEnv ==
    Env(RefreshInstants, {WellFormed(1), Malformed}, {"", "key-A"}, {<<45, 285>>}, Modes)

(* A configured driver in API mode across the whole forecast window. *)
WindowEnv ==
    Env(WindowInstants,
        GoodResponses \cup {NonNumeric(TEMP, 40), WrongLength(CLOUD, ExpectedHours + 1)},
        {"key-A"}, {<<45, 285>>}, {"API"})

(* A configured driver in API mode around the refresh interval. *)
RefreshEnv ==
    Env(RefreshInstants,
        GoodResponses \cup {Malformed, BadTimestamp, NoCredits, MissingSeries(WIND),
                            WrongLength(TRANSP, ExpectedHours - 1), NonNumeric(TEMP, 40)},
        {"key-A"}, {<<45, 285>>}, {"API"})

Next == NextIn(ConfigEnv)

Spec == Init /\ [][Next]_vars

SpecWindow == Init /\ [][NextIn(WindowEnv)]_vars

SpecRefresh == Init /\ [][NextIn(RefreshEnv)]_vars

SpecLongitude == Init /\ [][NextIn(LongitudeEnv)]_vars

SpecSettings == Init /\ [][NextIn(SettingsEnv)]_vars

SpecSimulated == Init /\ [][NextIn(SimulatedEnv)]_vars

(***************************************************************************)
(* Vocabulary of the properties                                            *)
(***************************************************************************)
(* The last handler ran updateWeather(). *)
Ticked == status # "NONE"

(* Its updateWeather() reached the staleness test of line 466: API mode,   *)
(* connected, location received, key and coordinates set.                  *)
ReachedCache == path \in {"fetchfail", "parsefail", "range", "served"}

(* Its updateWeather() reached the index lookup of lines 477-479.  The     *)
(* value of now it read there is the clock it left behind, and the start   *)
(* time it used is forecastStartTime (the lookup changes neither).         *)
LookupDone == path \in {"range", "served"}

(* It posted a request to the provider. *)
Fetched == requests # << >>

(* The refresh attempt of the last handler failed. *)
RefreshFailed == path \in {"fetchfail", "parsefail"}

(* The stored record has the shape of a forecast record: 82 hours in each  *)
(* of the seven vectors.                                                   *)
RecordComplete ==
    /\ forecastHours = ExpectedHours
    /\ \A m \in Metrics : Len(Series[m]) = ExpectedHours

(* API mode with everything updateWeather() asks for before it looks at    *)
(* the forecast.                                                           *)
PrereqsMet ==
    /\ connected
    /\ locationReceived
    /\ ModeSP = "API"
    /\ APIKeyTP # ""
    /\ LocationNP # <<0, 0>>

(* A response body in which one of the seven arrays is missing or does not *)
(* have 82 entries.                                                        *)
SeriesIncomplete(r) == \E m \in Metrics : ~r.has[m] \/ r.len[m] # ExpectedHours

(* A response body as the wire contract describes it. *)
FullyWellFormed(r) ==
    /\ r.syntax /\ r.hasStart /\ r.start.fmt = "iso" /\ r.hasCredits
    /\ ~SeriesIncomplete(r)
    /\ r.bad = <<0, 0>>

(***************************************************************************)
(* C1: a lookup at a time now before the record's start time S (by any     *)
(* amount, down to one second) or at or after S + 82 h reports ALERT and   *)
(* emits none of the seven values; index 0 is never served for a time      *)
(* before S.                                                               *)
(***************************************************************************)
C1_RangeFailsClosed ==
    (LookupDone /\ (clock < forecastStartTime \/ clock >= forecastStartTime + WindowSeconds))
        => (status = "ALERT" /\ path = "range" /\ ~emitted)

C3_FailedRefreshInvalidates == RefreshFailed => ~forecastValid

(***************************************************************************)
(* C4: a tick whose fetch or parse fails leaves the previously stored       *)
(* record (start time, the seven series, hour count) and fetchedAt as they *)
(* were.  (lastFetchTime # 0: a record has been stored before the tick.)   *)
(***************************************************************************)
C4_FailedTickKeepsRecord ==
    [][(lastFetchTime # 0 /\ RefreshFailed') =>
          UNCHANGED <<forecastStartTime, forecastHours, lastFetchTime, cloudCover,
                      temperature, windSpeed, dewPoint, windDirection, seeing,
                      transparency>>]_vars

C6_ValidRecordComplete == forecastValid => RecordComplete

C8_RangeFailureForcesFetch ==
    [][/\ path' = "range" => ~forecastValid'
       /\ (~forecastValid /\ ~Fetched') => ~forecastValid'
       /\ (~forecastValid /\ PrereqsMet /\ Ticked') => Fetched'
       /\ (~forecastValid /\ PrereqsMet /\ emitted') => received' # << >>]_vars

(* A record fetched less than six hours ago failed the range check. *)
C8_Witness ==
    /\ path = "range"
    /\ ~Fetched
    /\ entry.valid
    /\ entry.time - entry.last < RefreshInterval
    /\ ~forecastValid

(***************************************************************************)
(* C9: in API mode a tick with an empty credential or without coordinates  *)
(* reports a status other than OK, posts no request, emits no value and    *)
(* leaves the cache (record, fetchedAt, valid) unchanged.                  *)
(***************************************************************************)
C9_PrerequisiteGuard ==
    [][(/\ Ticked'
        /\ ModeSP = "API"
        /\ APIKeyTP = "" \/ ~locationReceived \/ LocationNP = <<0, 0>>)
          => /\ status' # "OK"
             /\ ~Fetched'
             /\ ~emitted'
             /\ UNCHANGED cacheVars]_vars

(* A connected driver in API mode with a location but no key ticked. *)
C9_Witness ==
    /\ path = "nokey"
    /\ connected /\ locationReceived /\ ModeSP = "API" /\ APIKeyTP = ""
    /\ status = "ALERT"

(***************************************************************************)
(* C10: a tick posts no request when the cache is valid and less than 6 h  *)
(* have passed since the last successful fetch; a successful fetch made    *)
(* while the cache was still valid comes at least 6 h after the previous   *)
(* one.                                                                    *)
(***************************************************************************)
C10_FetchThrottled ==
    [][/\ (Ticked' /\ forecastValid /\ clock - lastFetchTime < RefreshInterval) => ~Fetched'
       /\ (forecastValid /\ Fetched' /\ LookupDone')
             => lastFetchTime' - lastFetchTime >= RefreshInterval]_vars

(* A valid record was refreshed successfully, six hours or more after it   *)
(* was fetched.                                                            *)
C10_Witness ==
    /\ Fetched
    /\ LookupDone
    /\ entry.valid
    /\ entry.last > 0
    /\ lastFetchTime - entry.last >= RefreshInterval

(***************************************************************************)
(* C11: once a refresh attempt has failed (transport or parse), every tick *)
(* in API mode with the prerequisites met posts a request again until a    *)
(* refresh succeeds; and a tick whose fetch and parse succeed at a time    *)
(* inside the new record's window reports OK with the values of the record *)
(* it received.                                                            *)
(***************************************************************************)
C11_FailedRefreshRetried ==
    [][/\ (pendingRetry /\ PrereqsMet /\ Ticked') => Fetched'
       /\ (/\ Fetched'
           /\ LookupDone'
           /\ forecastStartTime' <= clock'
           /\ clock' < forecastStartTime' + WindowSeconds)
             => /\ status' = "OK"
                /\ emitted'
                /\ \A m \in Metrics :
                      parameters'[m] = SeriesTable[received'[1]][m][hourOffset' + 1]]_vars

(***************************************************************************)
(* C12: one tick posts at most one request and parses at most one          *)
(* response; when its refresh fails it has posted exactly one request,     *)
(* reports ALERT and emits nothing; and a request is posted only by a      *)
(* handler that runs updateWeather().                                      *)
(***************************************************************************)
C12_NoSynchronousRetry ==
    [][/\ Len(requests') <= 1
       /\ Len(received') <= 1
       /\ RefreshFailed' => (Len(requests') = 1 /\ status' = "ALERT" /\ ~emitted')
       /\ Fetched' => Ticked']_vars

(* A tick whose parse failed, after one request and one response. *)
C12_Witness ==
    /\ path = "parsefail"
    /\ Len(requests) = 1
    /\ Len(received) = 1
    /\ status = "ALERT"
    /\ pendingRetry

(***************************************************************************)
(* C13: a tick either reports OK and sets all seven parameters (to the     *)
(* seven simulated values, or to the seven samples at its hour offset), or *)
(* reports another status and leaves the seven parameters and their state  *)
(* as they were.                                                           *)
(***************************************************************************)
C13_OutputAllOrNothing ==
    [][Ticked' =>
          \/ /\ status' = "OK"
             /\ emitted'
             /\ parametersState' = "OK"
             /\ path' \in {"simulated", "served"}
             /\ path' = "simulated" => parameters' = SimulatedValues
             /\ (path' = "served" /\ RecordComplete') =>
                   \A m \in Metrics : parameters'[m] = Series'[m][hourOffset' + 1]
          \/ /\ status' # "OK"
             /\ ~emitted'
             /\ UNCHANGED outputVars]_vars

(* A tick failed the range check after an earlier tick had reported values. *)
C13_Witness ==
    /\ path = "range"
    /\ status = "ALERT"
    /\ ~emitted
    /\ parametersState = "OK"
    /\ parameters[TEMP] # 0

(***************************************************************************)
(* C14: a response whose seven series are all present with 82 entries, one *)
(* of which carries an ActualValue that is not a number, is accepted by    *)
(* the parse: the seven vectors hold 82 samples each, 0 at that entry and  *)
(* the (converted) sample of the response everywhere else.                 *)
(***************************************************************************)
C14_PerHourTolerance ==
    [][(/\ received' # << >>
        /\ received'[1].syntax /\ received'[1].hasStart /\ received'[1].hasCredits
        /\ received'[1].start.fmt = "iso"
        /\ ~SeriesIncomplete(received'[1])
        /\ received'[1].bad[1] \in Metrics)
          => /\ LookupDone'
             /\ RecordComplete'
             /\ \A m \in Metrics : \A i \in 1..ExpectedHours :
                   Series'[m][i] = IF <<m, i - 1>> = received'[1].bad
                                   THEN 0
                                   ELSE Convert(m, Raw(received'[1].seed, m, i - 1))]_vars

(***************************************************************************)
(* C15: a response that is well formed apart from its credits field - the  *)
(* field absent, below 90, or 90 and above - is accepted by the parse: the *)
(* tick does not end in a parse failure and the record is stored.          *)
(***************************************************************************)
C15_CreditsOptional ==
    [][(/\ received' # << >>
        /\ received'[1].syntax /\ received'[1].hasStart
        /\ received'[1].start.fmt = "iso"
        /\ ~SeriesIncomplete(received'[1])
        /\ received'[1].bad = <<0, 0>>)
          => /\ path' # "parsefail"
             /\ LookupDone'
             /\ RecordComplete'
             /\ forecastStartTime' = Timegm(received'[1].start)]_vars

(***************************************************************************)
(* C16: for a configured longitude in [0, 360] the longitude of a posted   *)
(* request lies in [-180, 180] and is the same meridian as the configured  *)
(* one (reduced by 360 when it is above 180, unchanged otherwise); the     *)
(* latitude is sent as configured; and a tick leaves the configured        *)
(* location as it was.                                                     *)
(***************************************************************************)
C16_LongitudeNormalised ==
    [][/\ Ticked' => LocationNP' = LocationNP
       /\ (Fetched' /\ 0 <= LocationNP[2] /\ LocationNP[2] <= 360) =>
             /\ requests'[1].Latitude = LocationNP[1]
             /\ -180 <= requests'[1].Longitude
             /\ requests'[1].Longitude <= 180
             /\ (requests'[1].Longitude - LocationNP[2]) % 360 = 0
             /\ LocationNP[2] > 180 => requests'[1].Longitude = LocationNP[2] - 360
             /\ LocationNP[2] <= 180 => requests'[1].Longitude = LocationNP[2]]_vars

(* A request was posted for the configured longitude 181. *)
C16_Witness ==
    /\ Fetched
    /\ LocationNP = <<45, 181>>
    /\ requests[1].Longitude = -179
    /\ requests[1].Latitude = 45

C18_NoOutOfBoundsRead ==
    path = "served" =>
        /\ 0 <= hourOffset
        /\ \A m \in Metrics : hourOffset < Len(Series[m])

(***************************************************************************)
(* C19: a LOCATION update, a snooped GEOGRAPHIC_COORD update with both LAT *)
(* and LONG, an API key update and a mode switch leave the cache invalid;  *)
(* a snooped update lacking LAT or LONG changes neither the location nor   *)
(* the valid flag; a tick in API mode that starts with an invalid cache    *)
(* posts a request carrying the current key and location before it reports *)
(* anything; and the cache is valid, or a value of it reported, only while *)
(* key and location are the ones its record was fetched with.              *)
(***************************************************************************)
C19_ConfigChangeInvalidates ==
    [][/\ (\/ SetLocation(SettingsEnv)
           \/ SetAPIKey(SettingsEnv)
           \/ SetMode(SettingsEnv)
           \/ \E loc \in SettingsEnv.locations : Snoop(TRUE, TRUE, loc))
             => ~forecastValid'
       /\ (\E loc \in SettingsEnv.locations, found \in BOOLEAN :
              Snoop(found, FALSE, loc) \/ Snoop(FALSE, found, loc))
             => UNCHANGED <<LocationNP, locationReceived, forecastValid>>
       /\ (~forecastValid /\ PrereqsMet /\ Ticked') =>
             /\ Fetched'
             /\ requests'[1].APIKey = APIKeyTP
             /\ requests'[1].Latitude = LocationNP[1]
             /\ (requests'[1].Longitude - LocationNP[2]) % 360 = 0
       /\ (forecastValid' \/ path' = "served") =>
             /\ fetchedWith'.APIKey = APIKeyTP'
             /\ fetchedWith'.Latitude = LocationNP'[1]
             /\ (fetchedWith'.Longitude - LocationNP'[2]) % 360 = 0]_vars

(* After a record had been fetched and the cache invalidated, a tick       *)
(* fetched with the second key and the second location and reported.       *)
C19_Witness ==
    /\ path = "served"
    /\ entry.last > 0
    /\ ~entry.valid
    /\ Fetched
    /\ requests[1] = [Latitude |-> 45, Longitude |-> -179, APIKey |-> "key-B"]
    /\ fetchedWith = requests[1]
    /\ APIKeyTP = "key-B"
    /\ LocationNP = <<45, 181>>

(***************************************************************************)
(* C20: with Connect invoked only while disconnected, after every handler  *)
(* at most one timer is pending; while connected exactly one is, the one   *)
(* timerID names; while disconnected none is and timerID is -1; and a      *)
(* timer that fires while disconnected is consumed without a call of       *)
(* updateWeather() and without a new timer.                                *)
(***************************************************************************)
C20_TimerDiscipline ==
    [][/\ Cardinality(timers') <= 1
       /\ connected' => (timerID' >= 0 /\ timers' = {timerID'})
       /\ ~connected' => (timers' = {} /\ timerID' = -1)
       /\ (~connected /\ ~connected' /\ timers' # timers) =>
             (~Ticked' /\ timers' \subseteq timers /\ timerID' = timerID)]_vars

(* A connected driver has ticked and one timer, the rescheduled one, is    *)
(* pending.                                                                *)
C20_Witness ==
    /\ connected
    /\ Ticked
    /\ path = "served"
    /\ timerID >= 0
    /\ timers = {timerID}

(***************************************************************************)
(* C21: a tick on a connected driver reports BUSY exactly when no location *)
(* has been received, in API and in simulated mode alike, and then posts   *)
(* no request and leaves cache and parameters as they were; no handler     *)
(* resets locationReceived, so no tick after a location was received       *)
(* reports BUSY; a tick on a disconnected driver reports ALERT, posts no   *)
(* request and changes nothing either.                                     *)
(***************************************************************************)
C21_BusyWhileAwaitingLocation ==
    [][/\ (Ticked' /\ connected) => (status' = "BUSY" <=> ~locationReceived)
       /\ (Ticked' /\ connected /\ ~locationReceived) =>
             (~Fetched' /\ ~emitted' /\ UNCHANGED <<cacheVars, outputVars>>)
       /\ locationReceived => locationReceived'
       /\ (Ticked' /\ locationReceived) => status' # "BUSY"
       /\ (Ticked' /\ ~connected) =>
             /\ status' = "ALERT"
             /\ ~Fetched'
             /\ ~emitted'
             /\ UNCHANGED <<cacheVars, outputVars>>]_vars

(* A connected driver switched to API mode, with a key but no location     *)
(* yet, ticked and reported BUSY.                                          *)
C21_Witness ==
    /\ path = "nolocation"
    /\ status = "BUSY"
    /\ connected
    /\ ~locationReceived
    /\ ModeSP = "API"
    /\ APIKeyTP # ""

(***************************************************************************)
(* C22: a tick of a connected driver in simulated mode that has received a *)
(* location reports OK and sets the seven parameters to the same fixed     *)
(* values (50, 20, 10, 10, 180, 2.5, 15), posts no request and parses no   *)
(* response - with or without a key, whatever the valid flag and the age   *)
(* of the record - and leaves the record, lastFetchTime and forecastValid  *)
(* as they were.                                                           *)
(***************************************************************************)
C22_SimulatedModeNetworkFree ==
    [][(Ticked' /\ connected /\ locationReceived /\ ModeSP = "SIM") =>
          /\ status' = "OK"
          /\ emitted'
          /\ parameters' = <<5000, 2000, 1000, 1000, 18000, 250, 1500>>
          /\ parametersState' = "OK"
          /\ ~Fetched'
          /\ received' = << >>
          /\ UNCHANGED cacheVars]_vars

(* A simulated tick with a key set, more than six hours after the record   *)
(* left over from API mode was fetched.                                    *)
C22_Witness ==
    /\ path = "simulated"
    /\ status = "OK"
    /\ ModeSP = "SIM"
    /\ APIKeyTP # ""
    /\ lastFetchTime > 0
    /\ clock - lastFetchTime > RefreshInterval
    /\ RecordComplete
    /\ ~Fetched

====
